---------------------------- MODULE Spec2Model ----------------------------
(***************************************************************************)
(* State-machine model of src/src/utils/databaseOptimizations.ts:          *)
(*   CacheManager    - in-memory key/value store with per-entry TTL        *)
(*   BatchOperations - per-kind write coalescer with a debounce timer      *)
(*   BackgroundSync  - queue of pending mutations with retry               *)
(* and of the hook of src/src/hooks/use-optimized-stories.ts, which keeps  *)
(* the stories view state and calls the three classes.                     *)
(* The three classes share no state, so each has its own next-state        *)
(* relation and specification (CacheSpec, BatchSpec, SyncSpec) over the    *)
(* same variables; a specification leaves the other classes' variables     *)
(* unchanged.  StoriesSpec is the hook with the queue it feeds.  Time is a *)
(* discrete clock `now` (Date.now()); one unit of the clock stands for     *)
(* 1000 ms.                                                                *)
(***************************************************************************)
EXTENDS Integers, Sequences, FiniteSets, TLC

VARIABLES
  now,        \* Date.now()
  cache,      \* CacheManager.cache : key -> entry | NoEntry
  ret,        \* what the most recent CacheManager.get call returned
  syncQueue,       \* BackgroundSync.syncQueue
  isOnline,        \* BackgroundSync.isOnline
  syncInProgress,  \* BackgroundSync.syncInProgress
  drains,          \* the processQueue activations that are past their guard
  connected,       \* navigator.onLine: whether the network is really there
  nextOp,          \* identity of the next object handed to addToQueue
  pendingOperations,  \* BatchOperations.pendingOperations
  timeouts,           \* BatchOperations.timeouts
  armed,              \* per kind, the debounce timers that are set and have
                      \* neither fired nor been cleared
  flights,            \* flushes whose remote call is awaited
  readds,             \* the re-add timers set by executeBatch's catch
  nextPayload,        \* identity of the next payload handed to addToBatch
  lastPayload,        \* identity of the last payload callers will hand over
  burst,              \* per kind, for the properties: the addToBatch calls
                      \* made since the kind's last flush began
  started,            \* for the properties: the flushes the last step began
  ended,              \* for the properties: the flushes whose remote call
                      \* the last step settled, and how
  sizeFlushed,        \* for the properties: payloads of size-triggered flushes
  hist,            \* per mutation, for the properties: its status, the
                   \* remote calls started and settled for it, whether it
                   \* was enqueued offline, the error of its last failure
  stories,         \* useOptimizedStories: the `stories` state
  viewedStories,   \* the `viewedStories` state
  loading,         \* the `loading` state
  fetches,         \* the remote reads of fetchStories that are awaited
  pendingFetch,    \* the setTimeout(fetchStories, 1000) timers not yet fired
  objects,         \* per cache key, the object the hook's cache entry holds
  db,              \* the remote store: the rows of the stories table
  serverViewed,    \* the remote store: the stories with a story_views row
                   \* of the current user
  opStory,         \* per mutation of the queue, the story of its `data`
  payloadStory,    \* the pairs <<payload, story>> of the payloads that
                   \* markStoryAsViewed handed to addToBatch
  confirmedCount,  \* for the properties: per story, the views_count the
                   \* remote store last gave the hook
  confirmedViewed, \* for the properties: the stories the remote store
                   \* last reported as viewed
  last,            \* for the properties: the change event the last step
                   \* handled, whether the step before handled the same
                   \* event, and whether the event is an UPDATE older
                   \* than an UPDATE of its story handled before
  given,      \* the batch a private helper of BatchOperations is called with
  sent,       \* the remote calls the helper has made, in order
  helper,     \* where the helper is: not called, awaiting a call, returned
  retry       \* ErrorHandler.withRetry: the state of one call of it

cacheVars == <<cache, ret>>
batchVars == <<pendingOperations, timeouts, armed, flights, readds,
               nextPayload, lastPayload, burst, started, ended, sizeFlushed>>
syncVars  == <<syncQueue, isOnline, syncInProgress, drains, connected,
               nextOp, hist>>
hookVars  == <<stories, viewedStories, loading, fetches, pendingFetch,
               objects, db, serverViewed, opStory, payloadStory,
               confirmedCount, confirmedViewed, last>>
utilVars  == <<given, sent, helper, retry>>

(***************************************************************************)
(* Bounds of the model.                                                    *)
(***************************************************************************)
MaxTime == 5

\* The keys the hook uses, for the current user `u1`.
ViewedKey  == "viewed_stories_u1"
StoriesKey == "stories_with_profiles_u1"

Keys   == {ViewedKey, StoriesKey}
Values == {"v1", "v2"}
Ttls   == {1, 2}

Null    == "null"
NoEntry == [data |-> Null, timestamp |-> -1, ttl |-> -1]

(***************************************************************************)
(*                              CacheManager                               *)
(***************************************************************************)

\* `now - item.timestamp > item.ttl`, the expiry test of get() and cleanup().
IsExpired(item, t) == t - item.timestamp > item.ttl

\* set(key, data, ttl): overwrite the entry unconditionally.
CacheSet(key, data, ttl) ==
  /\ cache' = [cache EXCEPT ![key] =
                 [data |-> data, timestamp |-> now, ttl |-> ttl]]
  /\ UNCHANGED <<now, ret, utilVars, batchVars, syncVars,
                 hookVars,
               utilVars>>

\* get(key): null for a missing entry; an expired entry is deleted and null
\* is returned; otherwise the data.  `ret` records the call: the key, the
\* returned value, the time of the call and the entry that was looked at.
CacheGet(key) ==
  LET item == cache[key] IN
  /\ IF item = NoEntry
       THEN /\ ret' = [key |-> key, value |-> Null, at |-> now, item |-> item]
            /\ cache' = cache
       ELSE IF IsExpired(item, now)
         THEN /\ cache' = [cache EXCEPT ![key] = NoEntry]
              /\ ret' = [key |-> key, value |-> Null, at |-> now, item |-> item]
         ELSE /\ cache' = cache
              /\ ret' = [key |-> key, value |-> item.data, at |-> now,
                         item |-> item]
  /\ UNCHANGED <<now, batchVars, syncVars, hookVars,
               utilVars>>

\* delete(key)
CacheDelete(key) ==
  /\ cache' = [cache EXCEPT ![key] = NoEntry]
  /\ UNCHANGED <<now, ret, utilVars, batchVars, syncVars,
                 hookVars,
               utilVars>>

\* clear()
CacheClear ==
  /\ cache' = [k \in Keys |-> NoEntry]
  /\ UNCHANGED <<now, ret, utilVars, batchVars, syncVars,
                 hookVars,
               utilVars>>

\* cleanup(): delete every entry whose expiry test is true.
CacheCleanup ==
  /\ cache' = [k \in Keys |->
                 IF cache[k] # NoEntry /\ IsExpired(cache[k], now)
                   THEN NoEntry ELSE cache[k]]
  /\ UNCHANGED <<now, ret, utilVars, batchVars, syncVars,
                 hookVars,
               utilVars>>

\* The clock advances.
CacheTick ==
  /\ now < MaxTime
  /\ now' = now + 1
  /\ UNCHANGED <<cacheVars, batchVars, syncVars, hookVars,
               utilVars>>

(***************************************************************************)
(*                             BackgroundSync                              *)
(***************************************************************************)
MaxOps    == 2    \* addToQueue calls in one behaviour
MaxDrains == 2    \* processQueue activations the model can hold at once

maxRetries == 3

OpTypes == {"story_view", "increment_views", "unknown"}
Outcomes == {"ok", "network", "validation"}

OpIds == 1..MaxOps
DrainIds == 1..MaxDrains

IdleDrain == [operations |-> <<>>, i |-> 0]

\* executeOperation's switch: the remote call made for an operation type
\* ("none" for the default branch, which only logs a warning).
RemoteCallOf(type) ==
  CASE type = "story_view"      -> "insert:story_views"
    [] type = "increment_views" -> "rpc:increment_story_views"
    [] type = "notification"    -> "insert:notifications"
    [] OTHER                    -> "none"

\* hist after executeOperation(op) has been entered: one more remote call
\* has been started for the operation, unless its type makes none.
CallStarted(h, op) ==
  IF RemoteCallOf(op.type) = "none" THEN h
  ELSE [h EXCEPT ![op.id].attempts = @ + 1]

\* The lowest free activation slot (0 when there is none).
FreeDrain ==
  IF \E d \in DrainIds : drains[d].i = 0
    THEN CHOOSE d \in DrainIds :
           /\ drains[d].i = 0
           /\ \A e \in DrainIds : drains[e].i = 0 => d <= e
    ELSE 0

\* The guard without its reentrancy test.
GuardIgnoringSyncInProgress(q, online) ==
  ~online \/ Len(q) = 0

\* The entry guard of processQueue: TRUE when the call returns at once.
ProcessQueueReturnsEarly(q, online) ==
  ~online \/ Len(q) = 0 \/ syncInProgress

\* The queue copied back to front.
SnapshotReversed(q) == [k \in 1..Len(q) |-> q[Len(q) + 1 - k]]

\* The snapshot processQueue takes of the queue: [...this.syncQueue].
Snapshot(q) == q

\* The queue left as it is once the snapshot is taken.
QueueKept(q) == q

\* `this.syncQueue = []` after the snapshot of queue q.
QueueAfterSnapshot(q) == <<>>

\* processQueue(), entered with queue q and flag `online`, up to its first
\* await: past the guard it sets syncInProgress, takes the whole queue as
\* `operations`, empties the queue and enters executeOperation for the
\* first operation.  h is hist as the caller leaves it.
ProcessQueue(q, online, h) ==
  IF ProcessQueueReturnsEarly(q, online)
    THEN /\ syncQueue' = q
         /\ hist' = h
         /\ UNCHANGED <<syncInProgress, drains>>
    ELSE /\ FreeDrain # 0
         /\ syncInProgress' = TRUE
         /\ syncQueue' = QueueAfterSnapshot(q)
         /\ drains' = [drains EXCEPT
                         ![FreeDrain] = [operations |-> Snapshot(q), i |-> 1]]
         /\ hist' = CallStarted(h, Snapshot(q)[1])

\* addToQueue(operation): push {...operation, timestamp, retries: 0}, then
\* processQueue() if online and no drain is in progress.
AddToQueue(type) ==
  /\ nextOp <= MaxOps
  /\ LET op == [id |-> nextOp, type |-> type, timestamp |-> now, retries |-> 0]
         q  == Append(syncQueue, op)
         h  == [hist EXCEPT ![nextOp] =
                  [status |-> "pending", call |-> RemoteCallOf(type),
                   attempts |-> 0, settled |-> 0, offline |-> ~isOnline,
                   lastError |-> "none"]]
     IN IF isOnline /\ ~syncInProgress
          THEN ProcessQueue(q, isOnline, h)
          ELSE /\ syncQueue' = q
               /\ hist' = h
               /\ UNCHANGED <<syncInProgress, drains>>
  /\ nextOp' = nextOp + 1
  /\ UNCHANGED <<now, utilVars, hookVars, cacheVars,
                 batchVars, isOnline, connected>>

\* The browser's 'online' event: handleOnline sets the flag and drains.
HandleOnline ==
  /\ ~connected
  /\ connected' = TRUE
  /\ isOnline' = TRUE
  /\ ProcessQueue(syncQueue, TRUE, hist)
  /\ UNCHANGED <<now, utilVars, hookVars, cacheVars,
                 batchVars, nextOp>>

\* The browser's 'offline' event: handleOffline only clears the flag.
HandleOffline ==
  /\ connected
  /\ connected' = FALSE
  /\ isOnline' = FALSE
  /\ UNCHANGED <<now, utilVars, hookVars, cacheVars,
                 batchVars, syncQueue, syncInProgress,
                 drains, nextOp, hist>>

\* The network comes or goes and no event reaches the handlers.
ConnectivityChangesUnsignalled ==
  /\ connected' = ~connected
  /\ UNCHANGED <<now, utilVars, hookVars, cacheVars,
                 batchVars, syncQueue, isOnline,
                 syncInProgress, drains, nextOp, hist>>

\* An interval whose callback does nothing.
TickNeverDrains ==
  UNCHANGED <<now, utilVars, hookVars, cacheVars, batchVars, syncVars>>

\* The setInterval callback of init(), every 30 s.
PeriodicTick ==
  /\ IF isOnline /\ ~syncInProgress
       THEN ProcessQueue(syncQueue, isOnline, hist)
       ELSE UNCHANGED <<syncQueue, syncInProgress, drains, hist>>
  /\ UNCHANGED <<now, utilVars, hookVars, cacheVars,
                 batchVars, isOnline, connected,
                 nextOp>>

\* forcSync(): processQueue() if online.
ForcSync ==
  /\ IF isOnline
       THEN ProcessQueue(syncQueue, isOnline, hist)
       ELSE UNCHANGED <<syncQueue, syncInProgress, drains, hist>>
  /\ UNCHANGED <<now, utilVars, hookVars, cacheVars,
                 batchVars, isOnline, connected,
                 nextOp>>

\* The retry test off by one.
ShouldRetryOnceMore(op, outcome) == op.retries <= maxRetries

\* The catch block of processQueue: whether the failed operation goes back
\* to the queue.
ShouldRetry(op, outcome) == op.retries < maxRetries

\* The awaited executeOperation of activation d settles with `outcome`:
\* "ok" resolves, the others throw.  The loop body's catch re-queues or
\* gives up, then the loop enters executeOperation for the next operation
\* or, after the last one, clears syncInProgress.
CallSettles(d, outcome) ==
  /\ drains[d].i > 0
  /\ LET run   == drains[d]
         op    == run.operations[run.i]
         threw == outcome # "ok"
         again == threw /\ ShouldRetry(op, outcome)
         q1    == IF again
                    THEN Append(syncQueue, [op EXCEPT !.retries = @ + 1])
                    ELSE syncQueue
         h1    == [hist EXCEPT ![op.id] =
                    [@ EXCEPT !.status = IF ~threw THEN "confirmed"
                                         ELSE IF again THEN "pending"
                                         ELSE "abandoned",
                              !.settled = IF RemoteCallOf(op.type) = "none"
                                            THEN @ ELSE @ + 1,
                              !.lastError = IF threw THEN outcome ELSE @]]
     IN /\ RemoteCallOf(op.type) = "none" => outcome = "ok"
        /\ (RemoteCallOf(op.type) # "none" /\ outcome = "ok") => connected
        /\ syncQueue' = q1
        /\ IF run.i < Len(run.operations)
             THEN /\ drains' = [drains EXCEPT ![d].i = @ + 1]
                  /\ hist' = CallStarted(h1, run.operations[run.i + 1])
                  /\ UNCHANGED syncInProgress
             ELSE /\ drains' = [drains EXCEPT ![d] = IdleDrain]
                  /\ hist' = h1
                  /\ syncInProgress' = FALSE
  /\ UNCHANGED <<now, utilVars, hookVars, cacheVars,
                 batchVars, isOnline, connected,
                 nextOp>>

\* The class as loaded, with navigator.onLine = c.
SyncStart(c) ==
  /\ syncQueue = <<>>
  /\ connected = c
  /\ isOnline = connected
  /\ syncInProgress = FALSE
  /\ drains = [d \in DrainIds |-> IdleDrain]
  /\ nextOp = 1
  /\ hist = [m \in OpIds |->
               [status |-> "new", call |-> "none", attempts |-> 0,
                settled |-> 0, offline |-> FALSE, lastError |-> "none"]]

SyncInit == \E c \in BOOLEAN : SyncStart(c)

SyncNext ==
  \/ \E t \in OpTypes : AddToQueue(t)
  \/ HandleOnline
  \/ HandleOffline
  \/ ConnectivityChangesUnsignalled
  \/ PeriodicTick
  \/ ForcSync
  \/ \E d \in DrainIds, o \in Outcomes : CallSettles(d, o)

(***************************************************************************)
(*                             BatchOperations                             *)
(* Payloads are the objects handed to addToBatch, told apart by identity   *)
(* (1, 2, ...).  A timer is the time left until it fires: armed[kind] are  *)
(* the kind's debounce timers that can still fire, timeouts[kind] is the   *)
(* handle the map holds for the kind, NoTimer when it holds none.          *)
(* `flights` are the flushes whose remote call is awaited, `readds` the    *)
(* 5 s timers of the catch block.                                          *)
(***************************************************************************)
MaxAdds == 3     \* addToBatch calls made by callers in one behaviour
PreFill == 48    \* payloads of a group that exists at the start

maxBatchSize  == 50
RedriveBelow  == 10   \* `batch.length < 10`
RedriveDelay  == 5    \* 5000 ms, both the setTimeout and the new delay

Kinds  == {"story_views", "story_view_increments", "likes"}
Delays == {1, 2}

NoTimer == -1

Range(s) == {s[k] : k \in 1..Len(s)}

\* burst[kind]: the payloads handed to addToBatch since the kind's last
\* flush, the delay of the last call, the time since it, and whether the
\* calls were made at different times.
NoBurst == [items |-> <<>>, delay |-> 0, sinceLast |-> 0, spread |-> FALSE]

\* The state of the class as one value, so that calls can be chained.
BatchState ==
  [pending |-> pendingOperations, timeouts |-> timeouts, armed |-> armed,
   flights |-> flights, burst |-> burst, started |-> {}, ended |-> {},
   sizeFlushed |-> sizeFlushed]

\* The kinds that have a case in the switch of executeBatch.
KnownKinds == {"story_views", "notifications", "story_view_increments"}

\* A switch whose default branch inserts the batch as well.
CallForEveryKind(kind) == "insert:rows"

\* The switch of executeBatch: the remote call of a flush of the kind
\* ("none" for the default branch, which only logs a warning).
BatchCallOf(kind) ==
  CASE kind = "story_views"           -> "insert:story_views"
    [] kind = "notifications"         -> "insert:notifications"
    [] kind = "story_view_increments" -> "rpc:increment_story_views"
    [] OTHER                          -> "none"

\* Whether a failed remote call of the kind reaches the catch of
\* executeBatch: the two inserts rethrow the error, batchIncrementStoryViews
\* catches it itself.
BatchThrows(kind) == kind \in {"story_views", "notifications"}

\* A timer that is not cleared.
ClearNothing(live, handle) == live

\* clearTimeout(handle): the timer can no longer fire (nothing happens for
\* a handle whose timer has fired, or for NoTimer).
ClearTimeout(live, handle) == live \ {handle}

\* setTimeout(callback, delay)
SetTimeout(live, delay) == live \cup {delay}

\* The group stays in the map while its remote call is awaited.
GroupKept(batch) == batch

\* Line 115, pendingOperations.delete(operation): what the map holds for
\* the kind once the flush has taken `batch`.
GroupAfterFlush(batch) == <<>>

\* executeBatch(operation) up to its first await: nothing for a missing or
\* empty group; else the group and its timer are removed and the remote
\* call of the kind is started with the whole group (the default branch
\* starts none and logs a warning).
ExecuteBatchOn(B, op, trigger) ==
  IF B.pending[op] = <<>> THEN B
  ELSE LET batch == B.pending[op]
           flush == [op |-> op, batch |-> batch, trigger |-> trigger,
                     arrived |-> B.burst[op],
                     resent |-> Range(batch) \cap B.sizeFlushed # {},
                     warned |-> BatchCallOf(op) = "none"]
       IN [B EXCEPT
             !.pending[op] = GroupAfterFlush(batch),
             !.armed[op] = ClearTimeout(@, B.timeouts[op]),
             !.timeouts[op] = NoTimer,
             !.flights = IF BatchCallOf(op) = "none" THEN @
                         ELSE @ \cup {[op |-> op, batch |-> batch]},
             !.burst[op] = NoBurst,
             !.started = @ \cup {flush},
             !.sizeFlushed = IF trigger = "size" THEN @ \cup Range(batch)
                             ELSE @]

\* The timer is left alone when one is armed.
KeepArmedTimeout(old, delay) == IF old # NoTimer THEN old ELSE delay

\* Lines 99-107: the armed timer `old`, if any, is cleared and a new one is
\* set that fires after `delay`.
NewTimeout(old, delay) == delay

\* The size test off by one.
BatchIsOverfull(batch) == Len(batch) > maxBatchSize

\* `batch.length >= this.maxBatchSize`
BatchIsFull(batch) == Len(batch) >= maxBatchSize

\* addToBatch(operation, data, delay)
AddToBatchOn(B, op, data, delay) ==
  LET batch == Append(B.pending[op], data)
      B1 == [B EXCEPT
               !.pending[op] = batch,
               !.burst[op] = [items     |-> Append(@.items, data),
                              delay     |-> delay,
                              sinceLast |-> 0,
                              spread    |-> @.spread \/ @.sinceLast > 0]]
  IN IF BatchIsFull(batch)
       THEN ExecuteBatchOn(B1, op, "size")
       ELSE [B1 EXCEPT
               !.armed[op] = SetTimeout(ClearTimeout(@, B1.timeouts[op]),
                                        delay),
               !.timeouts[op] = NewTimeout(@, delay)]

\* items.forEach(item => addToBatch(op, item, delay))
RECURSIVE AddAllOn(_, _, _, _)
AddAllOn(B, op, items, delay) ==
  IF items = <<>> THEN B
  ELSE AddAllOn(AddToBatchOn(B, op, Head(items), delay), op, Tail(items),
                delay)

\* operations.map(op => executeBatch(op)) over the kinds in `ops`; each
\* call touches its own kind only.
RECURSIVE ExecuteAllOn(_, _)
ExecuteAllOn(B, ops) ==
  IF ops = {} THEN B
  ELSE LET op == CHOOSE o \in ops : TRUE
       IN ExecuteAllOn(ExecuteBatchOn(B, op, "flushAll"), ops \ {op})

\* The variables of the class take the values of B.
BatchBecomes(B) ==
  /\ pendingOperations' = B.pending
  /\ timeouts' = B.timeouts
  /\ armed' = B.armed
  /\ flights' = B.flights
  /\ burst' = B.burst
  /\ started' = B.started
  /\ ended' = B.ended
  /\ sizeFlushed' = B.sizeFlushed

\* A caller's addToBatch(kind, payload, delay) with a new payload.
AddToBatch(kind, delay) ==
  /\ nextPayload <= lastPayload
  /\ BatchBecomes(AddToBatchOn(BatchState, kind, nextPayload, delay))
  /\ nextPayload' = nextPayload + 1
  /\ UNCHANGED <<now, utilVars, hookVars, cacheVars,
                 syncVars, readds, lastPayload>>

\* A debounce timer of the kind fires: executeBatch(kind).  When it is the
\* timer of the handle in the map, the fired handle stays there until
\* executeBatch deletes it; a fired handle and no handle behave alike, so
\* it counts as NoTimer from here on.
TimerFires(kind) ==
  /\ 0 \in armed[kind]
  /\ BatchBecomes(
       ExecuteBatchOn([BatchState EXCEPT
                         !.armed[kind] = @ \ {0},
                         !.timeouts[kind] = IF @ = 0 THEN NoTimer ELSE @],
                      kind, "timer"))
  /\ UNCHANGED <<now, utilVars, hookVars, cacheVars,
                 syncVars, readds, nextPayload,
                 lastPayload>>

\* flushAll(): executeBatch for every key of pendingOperations.
FlushAll ==
  /\ BatchBecomes(ExecuteAllOn(BatchState,
                               {k \in Kinds : pendingOperations[k] # <<>>}))
  /\ UNCHANGED <<now, utilVars, hookVars, cacheVars,
                 syncVars, readds, nextPayload,
                 lastPayload>>

\* The remote call of flush f settles.  An error of a kind that rethrows
\* reaches the catch: a batch of fewer than 10 payloads is handed to a
\* 5 s timer that re-adds it, a larger one is only logged.
FlushSettles(f, outcome) ==
  /\ f \in flights
  /\ flights' = flights \ {f}
  /\ readds' = IF /\ outcome = "error"
                  /\ BatchThrows(f.op)
                  /\ Len(f.batch) < RedriveBelow
                 THEN readds \cup {[op |-> f.op, batch |-> f.batch,
                                    due |-> RedriveDelay]}
                 ELSE readds
  /\ started' = {}
  /\ ended' = {[op |-> f.op, batch |-> f.batch, outcome |-> outcome]}
  /\ UNCHANGED <<now, utilVars, hookVars, cacheVars,
                 syncVars, pendingOperations,
                 timeouts, armed, burst, sizeFlushed, nextPayload,
                 lastPayload>>

\* The 5 s timer of the catch block fires: every payload of the failed
\* batch goes through addToBatch(op, item, 5000).
ReaddFires(r) ==
  /\ r \in readds
  /\ r.due = 0
  /\ readds' = readds \ {r}
  /\ BatchBecomes(AddAllOn(BatchState, r.op, r.batch, RedriveDelay))
  /\ UNCHANGED <<now, utilVars, hookVars, cacheVars,
                 syncVars, nextPayload, lastPayload>>

\* One unit of time passes, once every timer that is due has fired.
BatchTick ==
  /\ \A k \in Kinds : 0 \notin armed[k]
  /\ \A r \in readds : r.due # 0
  /\ \E k \in Kinds : armed[k] # {}
     \/ readds # {}
  /\ armed' = [k \in Kinds |-> {t - 1 : t \in armed[k]}]
  /\ timeouts' =[k \in Kinds |->
                    IF timeouts[k] = NoTimer THEN NoTimer ELSE timeouts[k] - 1]
  /\ readds' = {[r EXCEPT !.due = @ - 1] : r \in readds}
  /\ burst' = [k \in Kinds |->
                 IF burst[k].items = <<>> THEN burst[k]
                 ELSE [burst[k] EXCEPT
                         !.sinceLast = IF @ > RedriveDelay THEN @ ELSE @ + 1]]
  /\ started' = {}
  /\ ended' = {}
  /\ UNCHANGED <<now, utilVars, hookVars, cacheVars,
                 syncVars, pendingOperations, flights,
                 sizeFlushed, nextPayload, lastPayload>>

\* The class with nothing pending (n = 0), or just after n (< maxBatchSize)
\* addToBatch calls with delay d for one kind: its group holds the payloads
\* in order and its timer fires after d.
BatchStart(n, d) ==
    /\ pendingOperations =
         [k \in Kinds |-> IF k = "story_views" THEN [i \in 1..n |-> i]
                          ELSE <<>>]
    /\ timeouts =
         [k \in Kinds |-> IF k = "story_views" /\ n > 0 THEN d ELSE NoTimer]
    /\ burst =
         [k \in Kinds |-> IF k = "story_views" /\ n > 0
                            THEN [items |-> [i \in 1..n |-> i], delay |-> d,
                                  sinceLast |-> 0, spread |-> FALSE]
                            ELSE NoBurst]
    /\ armed =
         [k \in Kinds |-> IF k = "story_views" /\ n > 0 THEN {d} ELSE {}]
    /\ flights = {}
    /\ started = {}
    /\ ended = {}
    /\ sizeFlushed = {}
    /\ readds = {}
    /\ nextPayload = n + 1
    /\ lastPayload = n + MaxAdds

BatchInit == \E n \in {0, PreFill}, d \in Delays : BatchStart(n, d)

BatchNext ==
  \/ \E k \in Kinds, d \in Delays : AddToBatch(k, d)
  \/ \E k \in Kinds : TimerFires(k)
  \/ FlushAll
  \/ \E f \in flights, o \in {"ok", "error"} : FlushSettles(f, o)
  \/ \E r \in readds : ReaddFires(r)
  \/ BatchTick

(***************************************************************************)
(*                           useOptimizedStories                           *)
(* The hook of one mounted component with a logged-in user.  `stories` is  *)
(* the array of the view state, a story being [id, views_count, viewed].   *)
(* The remote store is the stories table (`db`) and the story_views rows   *)
(* of the user, as the reads of fetchStories find them.  The realtime      *)
(* channel hands the handler any change event of the table, in any order   *)
(* and any number of times; an event carries the row and its commit        *)
(* timestamp.  The entries the hook and OptimizedQueries put into the      *)
(* cache hold a reference: cache[key].data names the kind of object        *)
(* ("Set", "Array") and objects[key] is the object.  The clock does not    *)
(* advance in the specifications of the hook: the entries (30 s and 60 s)  *)
(* stay fresh until they are deleted.                                      *)
(***************************************************************************)
MaxCount   == 1   \* largest views_count of a row of the remote store
MaxStamp   == 2   \* largest commit timestamp of a change event
MaxPending == 2   \* fetchStories timers of the INSERT branch pending at once
MaxFetches == 1   \* fetchStories activations awaiting a remote read

StoryIds == {"s1", "s2"}

\* The rows of the stories table in the order of the query of
\* getStoriesWithProfiles: created_at descending (s2 was created last).
ByCreatedDesc == <<"s2", "s1">>

CreatedAt == [s \in StoryIds |-> IF s = "s1" THEN 1 ELSE 2]
Owner     == [s \in StoryIds |-> IF s = "s1" THEN "a" ELSE "b"]

ViewedTtl  == 60   \* 60000 ms
StoriesTtl == 30   \* 30000 ms

NoEvent == [eventType |-> "none", id |-> "none", views_count |-> 0,
            commit_timestamp |-> 0]

\* The change events of the stories table: payload.eventType, the id of
\* payload.new (payload.old for DELETE), the views_count of the row and
\* payload.commit_timestamp.  The handler reads the row of an UPDATE only.
Events ==
  [eventType : {"UPDATE"}, id : StoryIds,
   views_count : 0..MaxCount, commit_timestamp : 1..MaxStamp]
  \cup [eventType : {"INSERT", "DELETE"}, id : StoryIds,
        views_count : {0}, commit_timestamp : {MaxStamp}]

NoDelivery == [event |-> NoEvent, again |-> FALSE, stale |-> FALSE]

\* cache.get(key) at time t: the value returned ...
Lookup(c, key, t) ==
  IF c[key] = NoEntry \/ IsExpired(c[key], t) THEN Null ELSE c[key].data

\* ... and the cache it leaves: an expired entry is deleted.
Evicted(c, key, t) ==
  IF c[key] # NoEntry /\ IsExpired(c[key], t)
    THEN [c EXCEPT ![key] = NoEntry] ELSE c

\* cache.set(key, data, ttl) at time t
Stored(c, key, data, ttl, t) ==
  [c EXCEPT ![key] = [data |-> data, timestamp |-> t, ttl |-> ttl]]

\* The result of the stories query against the table d.
Rows(d) ==
  LET ids == SelectSeq(ByCreatedDesc, LAMBDA s : d[s].exists)
  IN [i \in 1..Len(ids) |->
        [id |-> ids[i], views_count |-> d[ids[i]].views_count]]

Ids(rows) == {rows[i].id : i \in 1..Len(rows)}

\* The reduce of fetchStories: one story per user, the one created last,
\* in the order in which the users first appear.
RECURSIVE Grouped(_, _, _)
Grouped(rest, all, users) ==
  IF rest = <<>> THEN <<>>
  ELSE LET u == Owner[Head(rest).id]
           latest == CHOOSE r \in Range(all) :
                       /\ Owner[r.id] = u
                       /\ \A q \in Range(all) :
                            Owner[q.id] = u =>
                              CreatedAt[q.id] <= CreatedAt[r.id]
       IN IF u \in users THEN Grouped(Tail(rest), all, users)
          ELSE <<latest>> \o Grouped(Tail(rest), all, users \cup {u})

GroupByUser(rows) == Grouped(rows, rows, {})

\* storiesArray.map(story => ({...story, viewed: viewedSet.has(story.id)}))
WithViewStatus(rows, viewedSet) ==
  [i \in 1..Len(rows) |->
     [id |-> rows[i].id, views_count |-> rows[i].views_count,
      viewed |-> rows[i].id \in viewedSet]]

\* The state the hook and its reads work on, as one value.
HookState ==
  [cache |-> cache, objects |-> objects, stories |-> stories,
   viewed |-> viewedStories, loading |-> loading, fetches |-> fetches,
   confirmedCount |-> confirmedCount, confirmedViewed |-> confirmedViewed]

HookBecomes(H) ==
  /\ cache' = H.cache
  /\ objects' = H.objects
  /\ stories' = H.stories
  /\ viewedStories' = H.viewed
  /\ loading' = H.loading
  /\ fetches' = H.fetches
  /\ confirmedCount' = H.confirmedCount
  /\ confirmedViewed' = H.confirmedViewed

\* Lines 70-79 and the finally: setViewedStories, setStories with the view
\* status, setLoading(false).
ApplyViewed(H, rows, viewedSet) ==
  [H EXCEPT
     !.viewed = viewedSet,
     !.stories = WithViewStatus(rows, viewedSet),
     !.loading = FALSE,
     !.confirmedCount =
        [s \in StoryIds |->
           IF s \in Ids(rows)
             THEN (CHOOSE r \in Range(rows) : r.id = s).views_count
             ELSE @[s]]]

\* fetchStories from line 42 on, with the result `data` of
\* getStoriesWithProfiles: group by user; no stories: setStories([]); else
\* getViewedStories answers from a cached Set or starts its remote read.
ViewedStepOn(H, data) ==
  LET rows == GroupByUser(data)
      H1 == [H EXCEPT !.cache = Evicted(@, ViewedKey, now)]
  IN IF rows = <<>>
       THEN [H EXCEPT !.stories = <<>>, !.loading = FALSE]
       ELSE IF Lookup(H.cache, ViewedKey, now) = "Set"
         THEN ApplyViewed(H1, rows, Ids(rows) \cap H.objects[ViewedKey])
         ELSE [H1 EXCEPT
                 !.fetches = @ \cup {[stage |-> "viewed", rows |-> rows]}]

\* fetchStories() up to its first remote read: getStoriesWithProfiles
\* answers from the cache or starts the stories query.
FetchStoriesOn(H) ==
  LET H1 == [H EXCEPT !.cache = Evicted(@, StoriesKey, now)]
  IN IF Lookup(H.cache, StoriesKey, now) # Null
       THEN ViewedStepOn(H1, H.objects[StoriesKey])
       ELSE [H1 EXCEPT
               !.fetches = @ \cup {[stage |-> "stories", rows |-> <<>>]}]

\* A remote read of fetchStories settles.  The stories query: its rows are
\* cached and fetchStories goes on with them; on an error it goes on with
\* [].  The story_views query: the ids it returns are cached as a Set and
\* become the view status; on an error no story counts as viewed.
QuerySettles(f, outcome) ==
  /\ f \in fetches
  /\ LET H0 == [HookState EXCEPT !.fetches = @ \ {f}]
         rows == Rows(db)
         viewedIds == Ids(f.rows) \cap serverViewed
     IN HookBecomes(
          IF f.stage = "stories"
            THEN IF outcome = "ok"
                   THEN ViewedStepOn(
                          [H0 EXCEPT
                             !.cache = Stored(@, StoriesKey, "Array",
                                              StoriesTtl, now),
                             !.objects[StoriesKey] = rows],
                          rows)
                   ELSE ViewedStepOn(H0, <<>>)
            ELSE IF outcome = "ok"
                   THEN ApplyViewed(
                          [H0 EXCEPT
                             !.cache = Stored(@, ViewedKey, "Set",
                                              ViewedTtl, now),
                             !.objects[ViewedKey] = viewedIds,
                             !.confirmedViewed =
                                (@ \ Ids(f.rows)) \cup viewedIds],
                          f.rows, viewedIds)
                   ELSE ApplyViewed(H0, f.rows, {}))
  /\ last' = NoDelivery
  /\ UNCHANGED <<now, ret, utilVars, batchVars, syncVars,
                 pendingFetch, db,
                 serverViewed, opStory, payloadStory>>

\* A setTimeout(fetchStories, 1000) of the INSERT branch fires.
FetchTimerFires ==
  /\ pendingFetch > 0
  /\ Cardinality(fetches) < MaxFetches
  /\ pendingFetch' = pendingFetch - 1
  /\ HookBecomes(FetchStoriesOn(HookState))
  /\ last' = NoDelivery
  /\ UNCHANGED <<now, ret, utilVars, batchVars, syncVars,
                 db, serverViewed,
                 opStory, payloadStory>>

\* refreshStories(): both cache keys are deleted, setLoading(true),
\* fetchStories().
RefreshStories ==
  /\ Cardinality(fetches) < MaxFetches
  /\ HookBecomes(FetchStoriesOn(
       [HookState EXCEPT !.cache[StoriesKey] = NoEntry,
                         !.cache[ViewedKey] = NoEntry,
                         !.loading = TRUE]))
  /\ last' = NoDelivery
  /\ UNCHANGED <<now, ret, utilVars, batchVars, syncVars,
                 pendingFetch, db,
                 serverViewed, opStory, payloadStory>>

\* The 2-minute interval: fetchStories() unless loading.
BackgroundRefresh ==
  /\ ~loading
  /\ Cardinality(fetches) < MaxFetches
  /\ HookBecomes(FetchStoriesOn(HookState))
  /\ last' = NoDelivery
  /\ UNCHANGED <<now, ret, utilVars, batchVars, syncVars,
                 pendingFetch, db,
                 serverViewed, opStory, payloadStory>>

\* markStoryAsViewed(storyId) for a story not in viewedStories: the
\* optimistic update of stories and viewedStories, cache.set of the new
\* Set, two addToBatch calls (default delay 1000) and two addToQueue
\* calls.  The first addToQueue starts a drain when the queue is online
\* and idle, so the second finds syncInProgress set and only pushes.
MarkStoryAsViewed(storyId) ==
  /\ storyId \notin viewedStories
  /\ nextOp + 1 <= MaxOps
  /\ nextPayload + 1 <= lastPayload
  /\ stories' = [i \in 1..Len(stories) |->
                   IF stories[i].id = storyId
                     THEN [stories[i] EXCEPT !.views_count = @ + 1,
                                             !.viewed = TRUE]
                     ELSE stories[i]]
  /\ viewedStories' = viewedStories \cup {storyId}
  /\ cache' = Stored(cache, ViewedKey, "Set", ViewedTtl, now)
  /\ objects' = [objects EXCEPT ![ViewedKey] = viewedStories \cup {storyId}]
  /\ BatchBecomes(
       AddToBatchOn(AddToBatchOn(BatchState, "story_views", nextPayload, 1),
                    "story_view_increments", nextPayload + 1, 1))
  /\ nextPayload' = nextPayload + 2
  /\ LET op1 == [id |-> nextOp, type |-> "story_view", timestamp |-> now,
                 retries |-> 0]
         op2 == [id |-> nextOp + 1, type |-> "increment_views",
                 timestamp |-> now, retries |-> 0]
         q1  == Append(syncQueue, op1)
         h   == [m \in OpIds |->
                   IF m \in {op1.id, op2.id}
                     THEN [status |-> "pending",
                           call |-> RemoteCallOf(IF m = op1.id THEN op1.type
                                                 ELSE op2.type),
                           attempts |-> 0, settled |-> 0,
                           offline |-> ~isOnline, lastError |-> "none"]
                     ELSE hist[m]]
     IN /\ IF isOnline /\ ~syncInProgress
                /\ ~ProcessQueueReturnsEarly(q1, isOnline)
             THEN /\ FreeDrain # 0
                  /\ syncInProgress' = TRUE
                  /\ drains' = [drains EXCEPT ![FreeDrain] =
                                  [operations |-> Snapshot(q1), i |-> 1]]
                  /\ hist' = CallStarted(h, Snapshot(q1)[1])
                  /\ syncQueue' = Append(QueueAfterSnapshot(q1), op2)
             ELSE /\ syncQueue' = Append(q1, op2)
                  /\ hist' = h
                  /\ UNCHANGED <<syncInProgress, drains>>
        /\ opStory' = [opStory EXCEPT ![op1.id] = storyId,
                                      ![op2.id] = storyId]
  /\ payloadStory' = payloadStory \cup {<<nextPayload, storyId>>,
                                        <<nextPayload + 1, storyId>>}
  /\ nextOp' = nextOp + 2
  /\ last' = NoDelivery
  /\ UNCHANGED <<now, ret, utilVars, readds, lastPayload, isOnline,
                 connected,
                 loading, fetches, pendingFetch, db, serverViewed,
                 confirmedCount, confirmedViewed>>

ReadStep    == 15   \* the time that passes between two looks at the clock
ReadHorizon == 45   \* the clock stops here

\* Time passes while the hook is mounted: by one step, or up to the instant
\* timestamp + ttl of an entry of the cache.
ReadTick ==
  /\ \E t \in {now + ReadStep} \cup
               {cache[k].timestamp + cache[k].ttl : k \in DOMAIN cache} :
       /\ t > now
       /\ t <= ReadHorizon
       /\ now' = t
  /\ UNCHANGED <<cacheVars, batchVars, syncVars, hookVars, utilVars>>

\* The larger views_count is kept.
MergeKeepingMax(story, e) ==
  [story EXCEPT !.views_count = IF @ > e.views_count THEN @
                                ELSE e.views_count]

\* The fields of both events are added up.
MergeAdding(story, e) == [story EXCEPT !.views_count = @ + e.views_count]

\* { ...story, ...payload.new }: the columns of the row replace the
\* story's; `viewed` is no column and stays.
MergeRow(story, e) == [story EXCEPT !.views_count = e.views_count]

\* What the realtime handler makes of `stories` for change event e: INSERT
\* leaves it (a fetch is scheduled), UPDATE merges the row into the story
\* with its id, DELETE filters the story out.
Reconcile(sts, e) ==
  CASE e.eventType = "UPDATE" ->
         [i \in 1..Len(sts) |->
            IF sts[i].id = e.id THEN MergeRow(sts[i], e) ELSE sts[i]]
    [] e.eventType = "DELETE" ->
         SelectSeq(sts, LAMBDA x : x.id # e.id)
    [] OTHER -> sts

\* The channel delivers change event e: the handler deletes the cache
\* entry of the stories, and for INSERT sets the 1 s timer of fetchStories.
Deliver(e) ==
  /\ e.eventType = "INSERT" => pendingFetch < MaxPending
  /\ cache' = [cache EXCEPT ![StoriesKey] = NoEntry]
  /\ stories' = Reconcile(stories, e)
  /\ pendingFetch' = IF e.eventType = "INSERT" THEN pendingFetch + 1
                     ELSE pendingFetch
  /\ confirmedCount' = IF e.eventType = "UPDATE" /\ e.id \in Ids(stories)
                         THEN [confirmedCount EXCEPT ![e.id] = e.views_count]
                         ELSE confirmedCount
  /\ last' = [event |-> e, again |-> last.event = e,
              stale |-> /\ e.eventType = "UPDATE"
                        /\ last.event # NoEvent
                        /\ last.event.eventType = "UPDATE"
                        /\ last.event.id = e.id
                        /\ e.commit_timestamp < last.event.commit_timestamp]
  /\ UNCHANGED <<now, ret, utilVars, batchVars, syncVars,
                 objects, viewedStories,
                 loading, fetches, db, serverViewed, opStory, payloadStory,
                 confirmedViewed>>

\* The states of the remote store the reads of a behaviour can find.
DbStates ==
  {d \in [StoryIds -> [exists : BOOLEAN, views_count : {0, MaxCount}]] :
     /\ d["s1"].exists /\ d["s1"].views_count = 0
     /\ d["s2"].views_count = IF d["s2"].exists THEN MaxCount ELSE 0}

\* The hook as mounted: the effect has called fetchStories(), whose stories
\* query is awaited.  The remote store holds the table d and story_views
\* rows of the user for the stories v.
HookStart(d, v) ==
  /\ stories = <<>>
  /\ viewedStories = {}
  /\ loading = TRUE
  /\ fetches = {[stage |-> "stories", rows |-> <<>>]}
  /\ pendingFetch = 0
  /\ objects = [k \in Keys |-> IF k = ViewedKey THEN {} ELSE <<>>]
  /\ db = d
  /\ serverViewed = v
  /\ opStory = [m \in OpIds |-> "none"]
  /\ payloadStory = {}
  /\ confirmedCount = [s \in StoryIds |-> 0]
  /\ confirmedViewed = {}
  /\ last = NoDelivery

\* The remote store with the single story s1, not viewed.
HookLoaded ==
  HookStart([s \in StoryIds |-> [exists |-> s = "s1", views_count |-> 0]],
            {})

HookInit ==
  \E d \in DbStates :
    \E v \in {{}, {s \in StoryIds : d[s].exists}} : HookStart(d, v)

\* The hook with its reads and the channel.  What the hook hands to
\* BatchOperations and BackgroundSync stays where markStoryAsViewed puts
\* it: their steps touch no state of the hook.
StoriesNext ==
  \/ \E s \in StoryIds : MarkStoryAsViewed(s)
  \/ \E e \in Events : Deliver(e)
  \/ FetchTimerFires
  \/ \E f \in fetches, o \in {"ok", "error"} : QuerySettles(f, o)

\* The hook's markStoryAsViewed and the queue that drains its mutations,
\* with the hook's refreshes and the reads of fetchStories.
QueuedViewNext ==
  \/ \E s \in StoryIds : MarkStoryAsViewed(s)
  \/ RefreshStories
  \/ BackgroundRefresh
  \/ \E f \in fetches, o \in {"ok", "error"} : QuerySettles(f, o)
  \/ PeriodicTick
  \/ \E d \in DrainIds, o \in Outcomes : CallSettles(d, o)

(***************************************************************************)
(*        The private helpers of BatchOperations, called on a batch        *)
(* A payload is an object with the fields the helpers read (story_id      *)
(* stands for story_uuid in a batch of increments); `ref` tells the        *)
(* objects of one batch apart.  `sent` is what the remote store            *)
(* receives: the calls in order, each with its argument and how it         *)
(* settled.                                                                *)
(***************************************************************************)
MaxBatch == 3   \* payloads of the batch a helper is called with

Viewers == {"u1", "u2"}

Batches ==
  UNION {[1..n -> [story_id : StoryIds, viewer_id : Viewers]] :
           n \in 0..MaxBatch}

\* The objects of the batch b.
AsObjects(b) ==
  [i \in 1..Len(b) |-> [story_id |-> b[i].story_id,
                        viewer_id |-> b[i].viewer_id, ref |-> i]]

SameKey(v, view) ==
  v.story_id = view.story_id /\ v.viewer_id = view.viewer_id

\* The index of the last element with the key of `view`.
FindLastIndex(self, view) ==
  CHOOSE k \in 1..Len(self) :
    /\ SameKey(self[k], view)
    /\ \A j \in 1..Len(self) : SameKey(self[j], view) => j <= k

\* self.findIndex(v => v.story_id === view.story_id &&
\*                     v.viewer_id === view.viewer_id)
FindIndex(self, view) ==
  CHOOSE k \in 1..Len(self) :
    /\ SameKey(self[k], view)
    /\ \A j \in 1..Len(self) : SameKey(self[j], view) => k <= j

\* views.filter((view, index, self) => index === self.findIndex(...)),
\* from index i on.
RECURSIVE FilterFrom(_, _)
FilterFrom(views, i) ==
  IF i > Len(views) THEN <<>>
  ELSE (IF i = FindIndex(views, views[i]) THEN <<views[i]>> ELSE <<>>)
       \o FilterFrom(views, i + 1)

UniqueViews(views) == FilterFrom(views, 1)

\* The keys of `grouped` in the order Object.entries yields them: the
\* order in which the reduce first met each story_uuid.
RECURSIVE KeysFrom(_, _, _)
KeysFrom(increments, i, seen) ==
  IF i > Len(increments) THEN <<>>
  ELSE IF increments[i].story_id \in seen
    THEN KeysFrom(increments, i + 1, seen)
    ELSE <<increments[i].story_id>>
         \o KeysFrom(increments, i + 1, seen \cup {increments[i].story_id})

\* grouped[story]: the number of payloads of the story.
Grouped1(increments, story) ==
  Cardinality({i \in 1..Len(increments) : increments[i].story_id = story})

\* The body of the for loop over Object.entries(grouped): the rpc calls
\* made for the entry [storyId, count].
CallsOfEntry(story, count) == <<story>>

RECURSIVE CallsOfEntries(_, _)
CallsOfEntries(increments, keys) ==
  IF keys = <<>> THEN <<>>
  ELSE CallsOfEntry(Head(keys), Grouped1(increments, Head(keys)))
       \o CallsOfEntries(increments, Tail(keys))

HelperIdle == [fn |-> "none", pc |-> "idle", todo |-> <<>>]

\* The next rpc call of the loop is made, or the helper returns.
NextIncrement(todo) ==
  IF todo = <<>>
    THEN /\ helper' = [fn |-> "increments", pc |-> "returned", todo |-> <<>>]
         /\ sent' = sent
    ELSE /\ helper' = [fn |-> "increments", pc |-> "awaiting",
                       todo |-> Tail(todo)]
         /\ sent' = Append(sent, [call |-> "rpc:increment_story_views",
                                  arg |-> Head(todo), outcome |-> "pending"])

\* batchInsertStoryViews(given): nothing for an empty batch; else one
\* insert of the filtered rows, awaited.
BatchInsertStoryViews ==
  /\ helper.pc = "idle"
  /\ IF Len(given) = 0
       THEN /\ helper' = [fn |-> "insert", pc |-> "returned", todo |-> <<>>]
            /\ sent' = sent
       ELSE /\ helper' = [fn |-> "insert", pc |-> "awaiting", todo |-> <<>>]
            /\ sent' = Append(sent, [call |-> "insert:story_views",
                                     arg |-> UniqueViews(given),
                                     outcome |-> "pending"])
  /\ UNCHANGED <<now, given, retry, cacheVars, batchVars, syncVars,
                 hookVars>>

\* batchIncrementStoryViews(given) up to its first await.
BatchIncrementStoryViews ==
  /\ helper.pc = "idle"
  /\ IF Len(given) = 0
       THEN /\ helper' = [fn |-> "increments", pc |-> "returned",
                          todo |-> <<>>]
            /\ sent' = sent
       ELSE NextIncrement(CallsOfEntries(given, KeysFrom(given, 1, {})))
  /\ UNCHANGED <<now, given, retry, cacheVars, batchVars, syncVars,
                 hookVars>>

\* The awaited remote call of the helper settles.  The insert throws its
\* error; the loop of the increments catches it, warns and goes on.
HelperCallSettles(outcome) ==
  /\ helper.pc = "awaiting"
  /\ LET log == [sent EXCEPT ![Len(sent)].outcome = outcome]
     IN IF helper.fn = "insert"
          THEN /\ sent' = log
               /\ helper' = [helper EXCEPT
                               !.pc = IF outcome = "ok" THEN "returned"
                                      ELSE "threw"]
          ELSE IF helper.todo = <<>>
            THEN /\ sent' = log
                 /\ helper' = [helper EXCEPT !.pc = "returned"]
            ELSE /\ sent' = Append(log,
                              [call |-> "rpc:increment_story_views",
                               arg |-> Head(helper.todo),
                               outcome |-> "pending"])
                 /\ helper' = [helper EXCEPT !.todo = Tail(@)]
  /\ UNCHANGED <<now, given, retry, cacheVars, batchVars, syncVars,
                 hookVars>>

\* increment_story_views(story_uuid, viewer_uuid) of the remote store:
\* UPDATE stories SET views_count = views_count + 1 WHERE id = story_uuid.
\* What the calls of `log` that succeeded add to the views_count of story.
ViewsAdded(log, story) ==
  Cardinality({i \in 1..Len(log) :
                 /\ log[i].call = "rpc:increment_story_views"
                 /\ log[i].arg = story
                 /\ log[i].outcome = "ok"})

(***************************************************************************)
(*                         ErrorHandler.withRetry                          *)
(* `retry` is one call of withRetry(operation, maxRetries): `log` holds    *)
(* how each invocation of the operation settled (a value or an error),     *)
(* `waits` the delays awaited between the attempts.                        *)
(***************************************************************************)
MaxRetriesArg == 3   \* largest maxRetries argument of withRetry

retryDelays == <<1, 2, 5>>   \* [1000, 2000, 5000] ms

Results == {"v1", "v2"}
Errors  == {"e1", "e2"}

RetryIdle ==
  [pc |-> "idle", maxRetries |-> 0, attempt |-> 0, log |-> <<>>,
   waits |-> <<>>, lastError |-> "none", value |-> "none"]

\* A loop that makes one attempt too many.
LoopTestOffByOne(attempt, max) == attempt <= max + 1

\* The loop test `attempt <= maxRetries`.
LoopContinues(attempt, max) == attempt <= max

\* `if (attempt < maxRetries)`: a wait follows the failed attempt.
WaitsAfter(attempt, max) == attempt < max

Min(a, b) == IF a < b THEN a ELSE b

\* this.retryDelays[Math.min(attempt, this.retryDelays.length - 1)]
DelayAfter(attempt) == retryDelays[Min(attempt, Len(retryDelays) - 1) + 1]

\* The loop test with the counter at `attempt`: the operation is invoked,
\* or the loop is left and lastError is thrown.
LoopAt(r, attempt) ==
  IF LoopContinues(attempt, r.maxRetries)
    THEN [r EXCEPT !.attempt = attempt, !.pc = "calling"]
    ELSE [r EXCEPT !.attempt = attempt, !.pc = "threw"]

\* withRetry(operation, m) up to the first await.
WithRetry(m) ==
  /\ retry.pc = "idle"
  /\ retry' = LoopAt([RetryIdle EXCEPT !.maxRetries = m], 0)
  /\ UNCHANGED <<now, given, sent, helper, cacheVars, batchVars, syncVars,
                 hookVars>>

\* The awaited operation() resolves with value v: withRetry returns it.
OperationResolves(v) ==
  /\ retry.pc = "calling"
  /\ retry' = [retry EXCEPT !.pc = "returned", !.value = v,
                            !.log = Append(@, v)]
  /\ UNCHANGED <<now, given, sent, helper, cacheVars, batchVars, syncVars,
                 hookVars>>

\* The awaited operation() rejects with error e: the catch keeps it and
\* either waits or goes to the next loop test.
OperationRejects(e) ==
  /\ retry.pc = "calling"
  /\ LET r == [retry EXCEPT !.lastError = e, !.log = Append(@, e)]
     IN retry' = IF WaitsAfter(r.attempt, r.maxRetries)
                   THEN [r EXCEPT !.pc = "waiting",
                                  !.waits = Append(@, DelayAfter(r.attempt))]
                   ELSE LoopAt(r, r.attempt + 1)
  /\ UNCHANGED <<now, given, sent, helper, cacheVars, batchVars, syncVars,
                 hookVars>>

\* The delay of the catch has passed: attempt++ and the loop test.
DelayElapses ==
  /\ retry.pc = "waiting"
  /\ retry' = LoopAt(retry, retry.attempt + 1)
  /\ UNCHANGED <<now, given, sent, helper, cacheVars, batchVars, syncVars,
                 hookVars>>

\* No helper and no withRetry has been called.
UtilStart(b) ==
  /\ given = AsObjects(b)
  /\ sent = <<>>
  /\ helper = HelperIdle
  /\ retry = RetryIdle

HelperNext ==
  \/ BatchInsertStoryViews
  \/ BatchIncrementStoryViews
  \/ \E o \in {"ok", "error"} : HelperCallSettles(o)

RetryNext ==
  \/ \E m \in 0..MaxRetriesArg : WithRetry(m)
  \/ \E v \in Results : OperationResolves(v)
  \/ \E e \in Errors : OperationRejects(e)
  \/ DelayElapses

vars == <<now, cacheVars, batchVars, syncVars, hookVars, utilVars>>

CacheInit ==
  /\ cache = [k \in Keys |-> NoEntry]
  /\ ret = [key |-> Null, value |-> Null, at |-> 0, item |-> NoEntry]

\* Each class is checked on its own: the other two stay as loaded.
Loaded ==
  now = 0 /\ CacheInit /\ BatchStart(0, 1) /\ SyncStart(TRUE)
  /\ UtilStart(<<>>)

CacheSpecInit == Loaded /\ HookLoaded
BatchSpecInit ==
  now = 0 /\ CacheInit /\ BatchInit /\ SyncStart(TRUE) /\ HookLoaded
  /\ UtilStart(<<>>)
SyncSpecInit ==
  now = 0 /\ CacheInit /\ BatchStart(0, 1) /\ SyncInit /\ HookLoaded
  /\ UtilStart(<<>>)
StoriesSpecInit == Loaded /\ HookInit
QueuedViewSpecInit == Loaded /\ HookLoaded
Started == now = 0 /\ CacheInit /\ BatchStart(0, 1) /\ SyncStart(TRUE)
HelperSpecInit ==
  Started /\ HookLoaded /\ \E b \in Batches : UtilStart(b)
RetrySpecInit == Loaded /\ HookLoaded

CacheNext ==
  \/ \E k \in Keys, v \in Values, t \in Ttls : CacheSet(k, v, t)
  \/ \E k \in Keys : CacheGet(k)
  \/ \E k \in Keys : CacheDelete(k)
  \/ CacheClear
  \/ CacheCleanup
  \/ CacheTick

CacheSpec == CacheSpecInit /\ [][CacheNext]_vars

BatchSpec == BatchSpecInit /\ [][BatchNext]_vars

SyncSpec == SyncSpecInit /\ [][SyncNext]_vars

StoriesSpec == StoriesSpecInit /\ [][StoriesNext]_vars

QueuedViewSpec == QueuedViewSpecInit /\ [][QueuedViewNext]_vars

\* One markStoryAsViewed with BatchOperations and BackgroundSync running
\* and every remote call succeeding.
DoubleWriteNext ==
  \/ \E s \in StoryIds : MarkStoryAsViewed(s)
  \/ BatchTick
  \/ \E k \in Kinds : TimerFires(k)
  \/ \E f \in flights : FlushSettles(f, "ok")
  \/ PeriodicTick
  \/ \E d \in DrainIds : CallSettles(d, "ok")

DoubleWriteSpecInit == Loaded /\ HookInit

DoubleWriteSpec == DoubleWriteSpecInit /\ [][DoubleWriteNext]_vars

\* The reads of the hook while time passes.
ReadNext ==
  \/ RefreshStories
  \/ BackgroundRefresh
  \/ \E f \in fetches, o \in {"ok", "error"} : QuerySettles(f, o)
  \/ ReadTick

ReadSpecInit == Loaded /\ HookInit

ReadSpec == ReadSpecInit /\ [][ReadNext]_vars

\* BackgroundSync while the queue stays online (no 'offline' event), with
\* its scheduling: the interval keeps firing and an awaited remote call
\* settles.  Callers are not obliged to call addToQueue or forcSync.
LiveSyncNext ==
  \/ \E t \in OpTypes : AddToQueue(t)
  \/ ConnectivityChangesUnsignalled
  \/ PeriodicTick
  \/ ForcSync
  \/ \E d \in DrainIds, o \in Outcomes : CallSettles(d, o)

LiveSyncSpecInit == Loaded /\ HookLoaded

LiveSyncSpec ==
  /\ LiveSyncSpecInit
  /\ [][LiveSyncNext]_vars
  /\ WF_vars(PeriodicTick)
  /\ WF_vars(\E d \in DrainIds, o \in Outcomes : CallSettles(d, o))

HelperSpec == HelperSpecInit /\ [][HelperNext]_vars

RetrySpec == RetrySpecInit /\ [][RetryNext]_vars

\* BatchOperations with its scheduling: a timer that is due fires, time
\* goes on, and an awaited remote call settles.  Callers are not obliged
\* to call addToBatch or flushAll.
RedriveSpec ==
  /\ BatchSpecInit
  /\ [][BatchNext]_vars
  /\ WF_vars(BatchTick)
  /\ WF_vars(\E k \in Kinds : TimerFires(k))
  /\ WF_vars(\E r \in readds : ReaddFires(r))
  /\ WF_vars(\E f \in flights, o \in {"ok", "error"} : FlushSettles(f, o))

(***************************************************************************)
(* Properties of BackgroundSync, checked under SyncSpec.                   *)
(***************************************************************************)

\* The mutation whose executeOperation is awaited by activation d.
Awaited(d) == drains[d].operations[drains[d].i]

ActiveDrains == {d \in DrainIds : drains[d].i > 0}

\* A remote call for mutation m is in flight.
InFlight(m) ==
  \E d \in ActiveDrains :
    Awaited(d).id = m /\ RemoteCallOf(Awaited(d).type) # "none"

Terminal(m) == hist[m].status \in {"confirmed", "abandoned"}

InQueue(m) == \E k \in 1..Len(syncQueue) : syncQueue[k].id = m

\* m is in the snapshot of an activation and has not been settled there.
InSnapshot(m) ==
  \E d \in ActiveDrains :
    \E k \in drains[d].i..Len(drains[d].operations) :
      drains[d].operations[k].id = m

\* forcSync() called now returns a promise that is resolved at once:
\* offline it calls nothing, online processQueue returns at its guard.
ForcSyncResolvesAtOnce ==
  ~isOnline \/ ProcessQueueReturnsEarly(syncQueue, isOnline)

\* The places where mutation m is: positions of the queue, positions of
\* the snapshot of a running drain that are not behind its loop, and the
\* record of its end.
Places(m) ==
  Cardinality({k \in 1..Len(syncQueue) : syncQueue[k].id = m})
  + Cardinality({x \in UNION {{<<d, k>> :
                                 k \in drains[d].i..Len(drains[d].operations)} :
                              d \in ActiveDrains} :
                   drains[x[1]].operations[x[2]].id = m})
  + (IF Terminal(m) THEN 1 ELSE 0)

\* C22: while a drain is in progress, a drain request (forcSync at
\* teardown, the tick, the online signal) made now does not complete
\* before that drain: the promise of forcSync is not resolved at once.
C22_CallersWaitForRunningDrain ==
  ActiveDrains # {} => ~ForcSyncResolvesAtOnce

\* C27: every mutation accepted by addToQueue is in exactly one place: the
\* queue, the snapshot of the running drain (not yet attempted or in
\* flight), or at its end (confirmed, i.e. executeOperation returned, or
\* abandoned); a mutation not yet accepted is nowhere.
C27_Conservation ==
  \A m \in OpIds :
    Places(m) = IF hist[m].status = "new" THEN 0 ELSE 1

\* A failed mutation is back in the queue while the drain that took it is
\* still running with a later mutation.
C27_Witness ==
  \E a, b \in OpIds :
    /\ a # b
    /\ InQueue(a) /\ hist[a].settled >= 1 /\ ~InSnapshot(a)
    /\ InSnapshot(b) /\ ~InQueue(b)

\* C28: while the queue stays online, with remote calls that settle and
\* a tick that keeps firing, every accepted mutation is eventually
\* confirmed or abandoned, and syncInProgress is false again after every
\* drain.
C28_EventualResolution ==
  /\ \A m \in OpIds : (hist[m].status # "new") ~> Terminal(m)
  /\ syncInProgress ~> ~syncInProgress

\* Two mutations have reached their end, one of them abandoned after its
\* retries and one after having been re-queued; no drain is running and
\* the queue is empty.
C28_Witness ==
  /\ ~syncInProgress /\ syncQueue = <<>> /\ isOnline
  /\ \E a, b \in OpIds :
       /\ a # b
       /\ hist[a].status = "abandoned"
       /\ Terminal(b) /\ hist[b].attempts >= 2

(***************************************************************************)
(* C2: FIFO durability.  For mutations a, b enqueued in that order while   *)
(* the queue was offline: once a remote call for b has been started, a     *)
(* remote call for a has been started before it and has settled            *)
(* (succeeded or failed).                                                  *)
(***************************************************************************)
C2_FifoDurability ==
  \A a, b \in OpIds :
    ( /\ a < b
      /\ hist[a].offline /\ hist[b].offline
      /\ hist[a].call # "none"
      /\ hist[b].attempts >= 1 )
    => /\ hist[a].settled >= 1
       /\ (InFlight(b) => ~InFlight(a))

C2_Witness ==
  \E a, b \in OpIds :
    /\ a < b
    /\ hist[a].offline /\ hist[b].offline
    /\ hist[a].settled = 1
    /\ hist[b].attempts = 1 /\ InFlight(b)

(***************************************************************************)
(* C3 (as the specification states it): for mutations a enqueued before    *)
(* b, no remote call for b is in flight while a is neither confirmed nor   *)
(* abandoned.  The code re-queues a failed a behind b and goes on to b.    *)
(***************************************************************************)
C3_NeverReordered ==
  \A a, b \in OpIds :
    (a < b /\ hist[a].status # "new" /\ InFlight(b)) => Terminal(a)

(***************************************************************************)
(* C4: single-flight drain.  At most one processQueue activation is past   *)
(* its guard, syncInProgress is set exactly while there is one, and so at  *)
(* most one remote call of the queue is in flight; a mutation enqueued     *)
(* during a drain waits in the queue.                                      *)
(***************************************************************************)
C4_SingleFlight ==
  /\ Cardinality(ActiveDrains) <= 1
  /\ syncInProgress <=> ActiveDrains # {}
  /\ Cardinality({m \in OpIds : InFlight(m)}) <= 1

C4_Witness ==
  /\ ActiveDrains # {}
  /\ \E k \in 1..Len(syncQueue) :
       syncQueue[k].retries = 0 /\ hist[syncQueue[k].id].attempts = 0

(***************************************************************************)
(* C5 (as the specification states it): with maxRetries = 3 a mutation     *)
(* whose call always fails gets exactly 3 remote calls and is abandoned    *)
(* after the third.                                                        *)
(***************************************************************************)
C5_AbandonedAfterThree ==
  \A m \in OpIds :
    /\ hist[m].attempts <= maxRetries
    /\ hist[m].status = "abandoned" => hist[m].attempts = maxRetries

(***************************************************************************)
(* C5 (amended): a mutation whose call always fails gets exactly           *)
(* maxRetries + 1 = 4 remote calls, each in a different drain (no drain    *)
(* holds a mutation twice); it is abandoned after the 4th failure, is then *)
(* in neither the queue nor a drain, and no 5th call is made.              *)
(***************************************************************************)
C5_AbandonedAfterFour ==
  /\ \A m \in OpIds :
       /\ hist[m].attempts <= maxRetries + 1
       /\ hist[m].status = "abandoned" =>
            /\ hist[m].attempts = maxRetries + 1
            /\ hist[m].settled = maxRetries + 1
            /\ ~InQueue(m) /\ ~InSnapshot(m)
  /\ \A d \in DrainIds :
       \A j, k \in 1..Len(drains[d].operations) :
         drains[d].operations[j].id = drains[d].operations[k].id => j = k

C5_Witness ==
  \E m \in OpIds :
    hist[m].status = "abandoned" /\ hist[m].attempts = maxRetries + 1

(***************************************************************************)
(* C6 (as the specification states it): while the queue is offline (its    *)
(* last signal was the offline signal) no remote call is started.  The     *)
(* loop of processQueue does not look at isOnline again.                   *)
(***************************************************************************)
C6_NoCallStartedOffline ==
  [][(\E m \in OpIds : hist'[m].attempts > hist[m].attempts)
       => isOnline']_vars

(***************************************************************************)
(* C7 (as the specification states it): when mutations are queued, the     *)
(* network is back and the online signal was missed, the periodic tick     *)
(* starts a drain.  The tick tests the flag that only the signal sets.     *)
(***************************************************************************)
C7_TickCoversMissedSignal ==
  (connected /\ ~isOnline /\ Len(syncQueue) > 0 /\ ~syncInProgress)
    => ENABLED (PeriodicTick /\ syncInProgress')

(***************************************************************************)
(* C8 (as the specification states it): a mutation whose call failed with  *)
(* a validation error is abandoned at once, with no retry consumed, and    *)
(* one that failed with a network error is re-queued while its budget      *)
(* lasts.  The catch block treats every error alike.                       *)
(***************************************************************************)
C8_ErrorClassification ==
  \A m \in OpIds :
    /\ hist[m].lastError = "validation" =>
         (hist[m].status = "abandoned" /\ hist[m].settled = 1)
    /\ (hist[m].lastError = "network" /\ hist[m].settled <= maxRetries) =>
         hist[m].status # "abandoned"

(***************************************************************************)
(* Properties of BatchOperations, checked under BatchSpec.                 *)
(***************************************************************************)

(***************************************************************************)
(* C9: coalescing.  While a group is pending it holds exactly the payloads *)
(* handed to addToBatch since the kind's last flush, in arrival order, and *)
(* its timer fires `delay` after the last of those calls; so calls less    *)
(* than `delay` apart are never split by the timer, and the flush the      *)
(* timer starts comes `delay` after the last call (not the first) and      *)
(* carries all of them in order.                                           *)
(***************************************************************************)
C9_Coalescing ==
  /\ \A k \in Kinds :
       /\ pendingOperations[k] = burst[k].items
       /\ pendingOperations[k] # <<>> =>
            timeouts[k] = burst[k].delay - burst[k].sinceLast
  /\ \A f \in started :
       f.trigger = "timer" =>
         /\ f.batch = f.arrived.items
         /\ f.arrived.sinceLast = f.arrived.delay
         /\ Len(f.batch) < maxBatchSize

C9_Witness ==
  \E f \in started :
    /\ f.trigger = "timer"
    /\ Len(f.batch) = 3
    /\ f.arrived.spread
    /\ f.arrived.sinceLast = f.arrived.delay

(***************************************************************************)
(* C10: size-threshold flush.  No group is left holding maxBatchSize       *)
(* payloads: the call that makes it reach 50 starts the flush, with        *)
(* exactly 50 payloads, none of which stays in the group; an armed timer   *)
(* belongs to a pending group that holds no payload of a size-triggered    *)
(* flush, no flush carries such a payload again, and no flush carries      *)
(* more than maxBatchSize payloads.                                        *)
(***************************************************************************)
C10_SizeFlush ==
  /\ \A k \in Kinds :
       /\ Len(pendingOperations[k]) < maxBatchSize
       /\ Range(pendingOperations[k]) \cap sizeFlushed = {}
       /\ timeouts[k] # NoTimer => pendingOperations[k] # <<>>
  /\ \A f \in started :
       /\ Len(f.batch) <= maxBatchSize
       /\ ~f.resent
       /\ f.trigger = "size" =>
            /\ Len(f.batch) = maxBatchSize
            /\ Range(f.batch) \cap Range(pendingOperations[f.op]) = {}
            /\ [op |-> f.op, batch |-> f.batch] \in flights
  /\ \A f \in flights : Len(f.batch) <= maxBatchSize

C10_Witness ==
  \E f \in started :
    f.trigger = "size" /\ Len(f.batch) = maxBatchSize /\ f.op = "story_views"

(***************************************************************************)
(* C11 (as the specification states it): when the remote call of a flush   *)
(* fails, every payload of its batch is handed to the timer that submits   *)
(* it again through addToBatch, whatever the size of the batch.  The catch *)
(* block does so only for a batch of fewer than 10 payloads, and the       *)
(* failures of the increments never reach it.                              *)
(***************************************************************************)
C11_FailedFlushIsResubmitted ==
  \A e \in ended :
    e.outcome = "error" =>
      \E r \in readds : r.op = e.op /\ r.batch = e.batch

(***************************************************************************)
(* C12 (as the specification states it): the flush attempts made for a     *)
(* payload are bounded, so from some point on no remote call of a flush   *)
(* is in flight any more, even when every call is rejected.  The catch     *)
(* block keeps no count: a small batch is re-added after every failure.    *)
(***************************************************************************)
C12_BoundedRedrive == <>[](flights = {})

\* The payloads that wait in a group of a known kind or for a re-add timer.
Unsent ==
  UNION {Range(pendingOperations[k]) : k \in Kinds \cap KnownKinds}
    \cup UNION {Range(r.batch) : r \in readds}

(***************************************************************************)
(* C13 (as the specification states it): in every state, a flushAll call   *)
(* puts every payload that was accepted and not yet sent successfully,     *)
(* those waiting for a re-add timer included, into a remote call it        *)
(* starts, and leaves no group pending.  flushAll only looks at the groups *)
(* of pendingOperations.                                                   *)
(***************************************************************************)
C13_FlushAllLeavesNothing ==
  ENABLED ( /\ FlushAll
            /\ \A k \in Kinds : pendingOperations'[k] = <<>>
            /\ \A p \in Unsent : \E f \in flights' : p \in Range(f.batch) )

(***************************************************************************)
(* C14: unknown batch kind.  A flush of a kind that executeBatch's switch  *)
(* does not know logs a warning and starts no remote call; its payloads    *)
(* are in no group, no remote call and no re-add timer afterwards, and     *)
(* neither a group nor a timer of the kind remains.  No remote call and no *)
(* re-add timer ever holds a batch of such a kind.                         *)
(***************************************************************************)
C14_UnknownKindDropped ==
  /\ \A s \in started :
       s.op \notin KnownKinds =>
         /\ s.warned
         /\ pendingOperations[s.op] = <<>>
         /\ timeouts[s.op] = NoTimer /\ armed[s.op] = {}
         /\ \A k \in Kinds :
              Range(s.batch) \cap Range(pendingOperations[k]) = {}
         /\ \A f \in flights : Range(s.batch) \cap Range(f.batch) = {}
         /\ \A r \in readds : Range(s.batch) \cap Range(r.batch) = {}
  /\ \A f \in flights : f.op \in KnownKinds
  /\ \A r \in readds : r.op \in KnownKinds

C14_Witness ==
  \E s \in started :
    s.op = "likes" /\ Len(s.batch) = 2 /\ s.trigger = "timer" /\ s.warned

(***************************************************************************)
(* C19: the debounce timer is re-armed, not stacked.  In every state each  *)
(* kind has at most one timer that can still fire, it is the one whose     *)
(* handle the map holds, and there is one exactly when the kind has a      *)
(* non-empty pending group.                                                *)
(***************************************************************************)
C19_OneTimerPerGroup ==
  \A k \in Kinds :
    /\ Cardinality(armed[k]) <= 1
    /\ armed[k] # {} <=> pendingOperations[k] # <<>>
    /\ armed[k] # {} => armed[k] = {timeouts[k]}

C19_Witness ==
  \E k \in Kinds :
    /\ Len(burst[k].items) >= 2
    /\ burst[k].spread /\ burst[k].sinceLast = 0
    /\ armed[k] = {burst[k].delay}

(***************************************************************************)
(* C20: in-flight isolation.  A batch whose remote call is awaited is in   *)
(* no group and is never altered: a remote call in flight after a step was *)
(* in flight before it or was started by it.  A caller's addToBatch for a  *)
(* kind with a call in flight leaves the calls in flight alone and puts    *)
(* the payload into the kind's group, which has its own timer; and the     *)
(* step in which a call settles, with either outcome, leaves every group   *)
(* and every timer as it was, so the group is flushed by its own timer.    *)
(***************************************************************************)
C20_InFlightIsolation ==
  [][ /\ \A f \in flights' :
           /\ f \in flights
              \/ \E s \in started' : s.op = f.op /\ s.batch = f.batch
           /\ \A k \in Kinds :
                Range(f.batch) \cap Range(pendingOperations'[k]) = {}
      /\ \A k \in Kinds :
           ( /\ nextPayload' = nextPayload + 1
             /\ \E f \in flights : f.op = k
             /\ pendingOperations'[k] # pendingOperations[k] )
           => /\ flights \subseteq flights'
              /\ pendingOperations'[k] =
                   Append(pendingOperations[k], nextPayload)
              /\ armed'[k] = {burst'[k].delay}
      /\ ended' # {} =>
           /\ pendingOperations' = pendingOperations
           /\ armed' = armed /\ timeouts' = timeouts
    ]_vars

C20_Witness ==
  \E f \in flights, s \in started :
    /\ s.op = f.op /\ s.trigger = "timer"
    /\ Range(s.batch) \cap Range(f.batch) = {}
    /\ [op |-> s.op, batch |-> s.batch] \in flights

(***************************************************************************)
(* Property of CacheManager, checked under CacheSpec.                      *)
(***************************************************************************)

(***************************************************************************)
(* Properties of the hook.                                                 *)
(***************************************************************************)
\* The view state of story s: its entry of `stories` and its membership
\* of viewedStories.
Shown(s) == {stories[i] : i \in {j \in 1..Len(stories) : stories[j].id = s}}

\* C16: when BackgroundSync abandons a mutation that markStoryAsViewed
\* queued, the story of the mutation is shown as the remote store last
\* confirmed it: views_count without the optimistic increment, the viewed
\* flag and the membership of viewedStories only if the store reported the
\* story as viewed.
C16_RevertOnAbandon ==
  \A m \in OpIds :
    (hist[m].status = "abandoned" /\ opStory[m] # "none") =>
      LET s == opStory[m] IN
        /\ s \in viewedStories => s \in confirmedViewed
        /\ \A row \in Shown(s) :
             /\ row.views_count = confirmedCount[s]
             /\ row.viewed => s \in confirmedViewed

\* C17: a change event handled a second time, right after it was handled,
\* leaves `stories` (and the rest of what the hook shows) as the first
\* handling left it.
C17_IdempotentReconciliation ==
  [][last'.again => /\ stories' = stories
                    /\ viewedStories' = viewedStories
                    /\ loading' = loading]_vars

\* An UPDATE that changed the views_count of a shown story was handled
\* twice in a row.
C17_Witness ==
  /\ last.again
  /\ last.event.eventType = "UPDATE"
  /\ \E row \in Shown(last.event.id) :
       /\ row.views_count = last.event.views_count
       /\ row.views_count # db[row.id].views_count

\* C18: an UPDATE of a story handled right after an UPDATE of the same
\* story with a later commit timestamp changes nothing in `stories`.
C18_OlderUpdateIsNoOp ==
  [][last'.stale => stories' = stories]_vars

\* C25: getStoriesWithProfiles called now (by fetchStories, with no read
\* in flight) answers from the cache and starts no remote read while the
\* entry of its key has not expired (now < timestamp + ttl), and starts
\* the remote read when the entry is absent or expired; a read that
\* settles stores its rows under the key if it succeeded and leaves the
\* cache as it is if it failed.
C25_CacheFirstRead ==
  LET entry == cache[StoriesKey]
      fresh == entry # NoEntry /\ now < entry.timestamp + entry.ttl
      H     == FetchStoriesOn(HookState)
      asked == [stage |-> "stories", rows |-> <<>>] \in H.fetches
  IN /\ fetches = {} =>
          /\ fresh => (~asked /\ H.cache[StoriesKey] = entry)
          /\ ~fresh => asked
     /\ \A f \in fetches :
          f.stage = "stories" =>
            /\ ENABLED ( /\ QuerySettles(f, "error")
                         /\ cache'[StoriesKey] = cache[StoriesKey] )
            /\ ENABLED ( /\ QuerySettles(f, "ok")
                         /\ cache'[StoriesKey] =
                              [data |-> "Array", timestamp |-> now,
                               ttl |-> StoriesTtl]
                         /\ objects'[StoriesKey] = Rows(db) )

\* executeOperation has been entered for a queued operation of story s
\* that makes the remote call `call`.
SyncCalled(s, call) ==
  \E m \in OpIds : /\ opStory[m] = s
                   /\ hist[m].call = call
                   /\ hist[m].attempts > 0

\* A batch of `kind` holding a payload of story s is at the remote store,
\* or has just been answered by it.
BatchCalled(s, kind) ==
  \/ \E f \in flights :
       /\ f.op = kind
       /\ \E p \in Range(f.batch) : <<p, s>> \in payloadStory
  \/ \E f \in ended :
       /\ f.op = kind
       /\ \E p \in Range(f.batch) : <<p, s>> \in payloadStory

\* C29: after one markStoryAsViewed of a story, with every remote call
\* succeeding, the procedure increment_story_views is invoked at most once
\* for the story and at most one story_views row of it is sent: the call
\* made for a story by BackgroundSync and the call made for it by
\* BatchOperations never both happen.
C29_NoDuplicateRemoteEffect ==
  \A s \in StoryIds :
    /\ ~ ( /\ SyncCalled(s, "rpc:increment_story_views")
           /\ BatchCalled(s, "story_view_increments") )
    /\ ~ ( /\ SyncCalled(s, "insert:story_views")
           /\ BatchCalled(s, "story_views") )
    /\ \A m \in OpIds : opStory[m] = s => hist[m].attempts <= 1

\* C23: the step of markStoryAsViewed, which issues no remote call before
\* it ends, shows the marked story with views_count + 1 and viewed, leaves
\* the viewed-stories key holding a Set with the story, and leaves under
\* the stories key no entry a cache-first read would answer from that
\* holds the story with the views_count it had before the step.
C23_MarkInvalidatesStaleKeys ==
  [][nextOp' = nextOp + 2 =>
       \A s \in viewedStories' \ viewedStories :
         /\ \A i \in 1..Len(stories) :
              stories[i].id = s =>
                /\ stories'[i].views_count = stories[i].views_count + 1
                /\ stories'[i].viewed
         /\ Lookup(cache', ViewedKey, now') = "Set"
         /\ s \in objects'[ViewedKey]
         /\ Lookup(cache', StoriesKey, now') # Null =>
              \A i \in 1..Len(stories) :
                stories[i].id = s =>
                  \A row \in Range(objects'[StoriesKey]) :
                    row.id = s => row.views_count # stories[i].views_count
    ]_vars

\* C24: the step that handles an UPDATE event for story s keeps the
\* stories and their order, gives s the views_count of the event whatever
\* it showed before, keeps what the event does not carry (viewed), and
\* leaves every other story as it was.
C24_ServerWinsOnUpdate ==
  [][last'.event.eventType = "UPDATE" =>
       /\ Len(stories') = Len(stories)
       /\ \A i \in 1..Len(stories) :
            IF stories[i].id = last'.event.id
              THEN /\ stories'[i].id = stories[i].id
                   /\ stories'[i].views_count = last'.event.views_count
                   /\ stories'[i].viewed = stories[i].viewed
              ELSE stories'[i] = stories[i]
    ]_vars

\* An UPDATE with views_count 0 was handled for a story that
\* markStoryAsViewed had shown with an incremented count, next to another
\* story.
C24_Witness ==
  /\ last.event.eventType = "UPDATE"
  /\ last.event.views_count = 0
  /\ \E m \in OpIds : opStory[m] = last.event.id
  /\ Len(stories) = 2
  /\ \E row \in Shown(last.event.id) : row.viewed /\ row.views_count = 0
  /\ last.event.id \in viewedStories

(***************************************************************************)
(* Properties of the helpers of BatchOperations, checked under HelperSpec, *)
(* and of withRetry, checked under RetrySpec.                              *)
(***************************************************************************)
\* C21: the rows of the insert made by batchInsertStoryViews hold no two
\* rows with the same (story_id, viewer_id), hold a row for every pair of
\* the batch, and each row is the first object of the batch with its pair,
\* the rows being in batch order.
C21_StoryViewsMerge ==
  \A n \in 1..Len(sent) :
    sent[n].call = "insert:story_views" =>
      LET rows == sent[n].arg IN
        /\ \A i, j \in 1..Len(rows) : SameKey(rows[i], rows[j]) => i = j
        /\ \A k \in 1..Len(given) :
             \E i \in 1..Len(rows) : SameKey(rows[i], given[k])
        /\ \A i \in 1..Len(rows) :
             /\ rows[i] = given[rows[i].ref]
             /\ \A k \in 1..Len(given) :
                  SameKey(given[k], rows[i]) => rows[i].ref <= k
        /\ \A i, j \in 1..Len(rows) : i < j => rows[i].ref < rows[j].ref

\* A batch of three whose first and last payload have the same pair was
\* inserted as two rows.
C21_Witness ==
  /\ helper.fn = "insert" /\ helper.pc = "returned"
  /\ Len(given) = 3
  /\ SameKey(given[1], given[3]) /\ ~SameKey(given[1], given[2])
  /\ Len(sent) = 1 /\ Len(sent[1].arg) = 2 /\ sent[1].outcome = "ok"

\* C30: when batchIncrementStoryViews is through with a batch, the calls
\* that succeeded have added to every story's views_count the number of
\* payloads of the story, and if a call failed the helper threw, so that
\* executeBatch's catch re-adds the batch.
C30_NoIncrementLost ==
  (helper.fn = "increments" /\ helper.pc \in {"returned", "threw"}) =>
    IF \E n \in 1..Len(sent) : sent[n].outcome = "error"
      THEN helper.pc = "threw"
      ELSE \A s \in StoryIds : ViewsAdded(sent, s) = Grouped1(given, s)

\* C26: withRetry(operation, maxRetries) invokes the operation at most
\* maxRetries + 1 times; it returns the value of the first invocation that
\* succeeded and has not invoked the operation after it; it throws, with
\* the error of the last invocation, only after maxRetries + 1 failures;
\* and a wait follows each failed attempt but the last of these.
C26_BoundedRetry ==
  LET n == Len(retry.log)
      Failed(k) == retry.log[k] \in Errors
  IN /\ n <= retry.maxRetries + 1
     /\ \A k \in 1..n : ~Failed(k) => (k = n /\ retry.pc = "returned")
     /\ retry.pc = "returned" =>
          /\ n >= 1 /\ retry.value = retry.log[n] /\ ~Failed(n)
          /\ Len(retry.waits) = n - 1
     /\ retry.pc = "threw" =>
          /\ n = retry.maxRetries + 1
          /\ \A k \in 1..n : Failed(k)
          /\ retry.lastError = retry.log[n]
          /\ Len(retry.waits) = retry.maxRetries
     /\ retry.pc = "waiting" => Len(retry.waits) = n /\ n <= retry.maxRetries
     /\ retry.pc = "calling" => Len(retry.waits) = n
     /\ \A k \in 1..Len(retry.waits) : retry.waits[k] = DelayAfter(k - 1)

\* A call with maxRetries = 3 has thrown after four failures with
\* different errors and three waits.
C26_Witness ==
  /\ retry.pc = "threw"
  /\ retry.maxRetries = 3
  /\ retry.log = <<"e1", "e1", "e1", "e2">>
  /\ retry.lastError = "e2"
  /\ retry.waits = <<1, 2, 5>>

(***************************************************************************)
(* C1 (as the specification states it): get(key) returns absent whenever   *)
(* now >= storedAt + ttlMs for the entry last stored under the key, the    *)
(* instant now = storedAt + ttlMs included.  The code's test is `>`, so    *)
(* at that instant the value is still returned.                            *)
(***************************************************************************)
C1_TtlInvariant ==
  (ret.item # NoEntry /\ ret.at >= ret.item.timestamp + ret.item.ttl)
    => ret.value = Null

(***************************************************************************)
(* C15 (as the specification states it): in every state, a cleanup() call  *)
(* leaves no entry with now >= storedAt + ttlMs in the cache and keeps     *)
(* every entry that is still valid, with its value, timestamp and ttl.     *)
(* cleanup() uses the test of get(): an entry with now = storedAt + ttlMs  *)
(* stays.                                                                  *)
(***************************************************************************)
C15_CleanupRemovesExactlyExpired ==
  ENABLED ( /\ CacheCleanup
            /\ \A k \in Keys :
                 /\ cache'[k] # NoEntry =>
                      now < cache'[k].timestamp + cache'[k].ttl
                 /\ ( /\ cache[k] # NoEntry
                      /\ now < cache[k].timestamp + cache[k].ttl )
                    => cache'[k] = cache[k] )

=============================================================================
